---- MODULE Spec2Model ----
(***************************************************************************)
(* Model of src/app.py, the KNCCI TA microdata dashboard script.           *)
(*                                                                         *)
(* The script is one straight-line pipeline that is run top to bottom on   *)
(* every page render:                                                      *)
(*   load_data -> date/county filter -> duplicate classification ->       *)
(*   cleaning steps + cleaning-level selector -> demographic aggregates.   *)
(* A data frame is a sequence of rows; a row is a record whose `idx` field *)
(* is the pandas index label (the position of the row in df_raw).  A cell  *)
(* is a sequence: the empty sequence is a missing cell (NaN / NaT), a      *)
(* one-element sequence holds a number or an atomic label, and a free-text *)
(* cell is the sequence of its characters.                                 *)
(***************************************************************************)
EXTENDS Integers, Sequences, FiniteSets, TLC

VARIABLES
    pc,                 \* position of the script run
    df_raw,             \* load_data().copy()
    start_date,         \* sidebar date inputs
    end_date,
    selected_counties,  \* sidebar multiselect
    df,                 \* filtered record set
    total_raw,          \* len(df)
    flags,              \* _id_duplicated / _phone_duplicated / _exact_duplicated
    duplicate_category, \* _duplicate_category column of df
    step1_df,
    step2_df,
    step3_df,
    cleaning_choice,    \* sidebar radio: 1, 2 or 3
    df_clean,
    age_group,          \* 'Age Group' column of df_clean
    pwd_status,         \* 'PWD Status' column of df_clean
    age_breakdown,
    pwd_breakdown,
    county_summary,
    gender_norm,        \* 'gender_norm' column of df_clean
    ta_summary          \* the Count column of the TA indicator table

vars == <<pc, df_raw, start_date, end_date, selected_counties, df, total_raw,
          flags, duplicate_category, step1_df, step2_df, step3_df,
          cleaning_choice, df_clean, age_group, pwd_status, age_breakdown,
          pwd_breakdown, county_summary, gender_norm, ta_summary>>

----------------------------------------------------------------------------
(* Bounds and input domains *)

\* longest sheet loaded when the key columns vary
MaxLen == 4
\* longest sheet loaded when the demographic columns vary
MaxAggLen == 2
\* longest sheet loaded when the ages vary
MaxAgeLen == 2
\* longest sheet loaded when key cells can be missing
MaxMissingLen == 3
\* longest sheet loaded when the date cells vary
MaxDateLen == 2
\* longest sheet loaded when gender, age and disability response vary
MaxTALen == 2

\* a missing cell (NaN, NaT)
NaN == <<>>

IDS == {<<1>>, <<2>>}
PHONES == {<<"A">>, <<"B">>}
DATES == {1, 2}
\* the text of each date as the sheet holds it, and a text that is no date
DATE_TEXTS == <<"2025-01-01", "2025-01-02">>
MALFORMED_DATE == <<"n/a">>
COUNTIES == {<<"K1">>, <<"K2">>}
AGES == {<<36>>}
PWD_RESPONSES == {<<"Y", "e", "s">>, <<"U", "n", "k", "n", "o", "w", "n">>}
GENDER_DEFAULT == <<"F", "e", "m", "a", "l", "e">>

SeqsUpTo(S, n) == UNION {[1..k -> S] : k \in 0..n}

\* cells of one sheet row, before the index label is attached
KeyCells ==
    [id : IDS, phone : PHONES, Timestamp : {<<DATE_TEXTS[1]>>}, county : {<<"K1">>},
     age : AGES, gender : {GENDER_DEFAULT}, pwd : {<<"N", "o">>}]

\* sheets whose key columns vary freely; at most one row of a sheet is a
\* later registration from the second county
KeySheets(n) ==
    LET plain == SeqsUpTo(KeyCells, n)
    IN  plain \cup UNION {
            {[c EXCEPT ![k].Timestamp = <<DATE_TEXTS[2]>>, ![k].county = <<"K2">>] :
                k \in 1..Len(c)} : c \in plain}

AggCells ==
    [id : IDS, phone : {<<"A">>}, Timestamp : {<<DATE_TEXTS[1]>>},
     county : {<<"K1">>, NaN}, age : AGES \cup {NaN},
     gender : {GENDER_DEFAULT}, pwd : PWD_RESPONSES \cup {NaN}]

\* sheets whose county, age and disability columns vary, missing cells
\* included
AggSheets(n) == SeqsUpTo(AggCells, n)

AGE_VALUES == {<<0>>, <<17>>, <<18>>, <<35>>, <<36>>, <<90>>}

\* sheets whose age column varies around the group boundaries, missing
\* ages included
AgeCells ==
    [id : IDS, phone : {<<"A">>}, Timestamp : {<<DATE_TEXTS[1]>>}, county : {<<"K1">>},
     age : AGE_VALUES \cup {NaN}, gender : {GENDER_DEFAULT},
     pwd : {<<"N", "o">>}]

AgeSheets(n) == SeqsUpTo(AgeCells, n)

\* sheets whose national id and phone cells can be missing
MissingKeyCells ==
    [id : IDS \cup {NaN}, phone : PHONES \cup {NaN}, Timestamp : {<<DATE_TEXTS[1]>>},
     county : {<<"K1">>}, age : AGES, gender : {GENDER_DEFAULT},
     pwd : {<<"N", "o">>}]

MissingKeySheets(n) == SeqsUpTo(MissingKeyCells, n)

GENDERS == {<<"F", "e", "m", "a", "l", "e">>, <<" ", "M", "A", "L", "E", " ">>}

\* sheets whose gender, age and disability response vary, missing genders
\* included
TACells ==
    [id : IDS, phone : {<<"A">>}, Timestamp : {<<DATE_TEXTS[1]>>},
     county : {<<"K1">>}, age : {<<35>>, <<36>>},
     gender : GENDERS \cup {NaN}, pwd : {<<"Y", "e", "s">>, <<"N", "o">>}]

TASheets(n) == SeqsUpTo(TACells, n)

\* sheets whose date cells can be missing or malformed and whose county
\* can be missing
DateCells ==
    [id : IDS, phone : {<<"A">>},
     Timestamp : {<<DATE_TEXTS[1]>>, <<DATE_TEXTS[2]>>, MALFORMED_DATE, NaN},
     Training_date : {<<DATE_TEXTS[2]>>, NaN},
     county : {<<"K1">>, NaN}, age : AGES, gender : {GENDER_DEFAULT},
     pwd : {<<"N", "o">>}]

DateSheets(n) == SeqsUpTo(DateCells, n)

\* the date columns a sheet can carry
timestamp_col == "Timestamp"
training_date_col == "Training_date"

\* pd.to_datetime(errors='coerce'): the date a text denotes, NaT for a
\* missing cell and for a text that is no date
to_datetime(cell) ==
    IF cell = NaN THEN NaN
    ELSE IF \E k \in DOMAIN DATE_TEXTS : DATE_TEXTS[k] = cell[1]
         THEN <<CHOOSE k \in DOMAIN DATE_TEXTS : DATE_TEXTS[k] = cell[1]>>
         ELSE NaN

\* load_data on a sheet with the given columns: the rows in order under the
\* default index 0..n-1, Timestamp standardised
load_data(cells, columns) ==
    [i \in 1..Len(cells) |->
        [idx |-> i - 1, id |-> cells[i].id, phone |-> cells[i].phone,
         Timestamp |->
            IF timestamp_col \in columns
            THEN to_datetime(cells[i][timestamp_col])
            ELSE IF training_date_col \in columns
                 THEN to_datetime(cells[i][training_date_col])
                 ELSE NaN,
         county |-> cells[i].county,
         age |-> cells[i].age, gender |-> cells[i].gender,
         pwd |-> cells[i].pwd]]

\* load_data on a sheet that has the Timestamp column
WithIndex(cells) == load_data(cells, {timestamp_col})

----------------------------------------------------------------------------
(* Section 2: date and county filter *)

\* column names
id_col == "id"
phone_col == "phone"
county_col == "county"
age_col == "age"
pwd_col == "pwd"
gender_col == "gender"

\* df[col]
Column(d, col) == [i \in 1..Len(d) |-> d[i][col]]

\* a date filter written with negated tests, which lets NaT through
DateFilterKeepNaT(d, s, e) ==
    SelectSeq(d, LAMBDA r : r.Timestamp = NaN
                            \/ (r.Timestamp[1] >= s /\ r.Timestamp[1] <= e))

\* df_raw[(Timestamp.dt.date >= start_date) & (Timestamp.dt.date <= end_date)]
DateFilter(d, s, e) ==
    SelectSeq(d, LAMBDA r : r.Timestamp # NaN /\ r.Timestamp[1] >= s
                            /\ r.Timestamp[1] <= e)

\* df[county_col].dropna().unique()
all_counties(d) == {Column(d, county_col)[i] : i \in 1..Len(d)} \ {NaN}

\* if selected_counties: df = df[df[county_col].isin(selected_counties)]
CountyFilter(d, sel) ==
    IF sel # {} THEN SelectSeq(d, LAMBDA r : r[county_col] \in sel) ELSE d

----------------------------------------------------------------------------
(* Section 3: duplicate classification *)

\* the subset= arguments of duplicated and drop_duplicates
IdKey == <<id_col>>
PhoneKey == <<phone_col>>
ExactKey == <<id_col, phone_col>>

\* the cells of row r in the columns of subset
Key(r, subset) == [k \in 1..Len(subset) |-> r[subset[k]]]

\* DataFrame.duplicated(subset, keep='first'): only the later occurrences
DuplicatedKeepFirst(d, subset) ==
    [i \in 1..Len(d) |-> \E j \in 1..(i - 1) : Key(d[j], subset) = Key(d[i], subset)]

\* duplicated(keep=False) under null semantics in which a missing cell
\* equals nothing
DuplicatedNullDistinct(d, subset) ==
    [i \in 1..Len(d) |->
        \E j \in 1..Len(d) :
            /\ j # i
            /\ Key(d[j], subset) = Key(d[i], subset)
            /\ \A k \in 1..Len(subset) : Key(d[i], subset)[k] # NaN]

\* DataFrame.duplicated(subset, keep=False): every row whose key occurs in
\* another row; missing cells compare equal to each other
Duplicated(d, subset) ==
    [i \in 1..Len(d) |->
        \E j \in 1..Len(d) : j # i /\ Key(d[j], subset) = Key(d[i], subset)]

\* the flags taken with the default keep='first'
DuplicateFlagsKeepFirst(d) ==
    [i \in 1..Len(d) |->
        [id_dup |-> DuplicatedKeepFirst(d, IdKey)[i],
         phone_dup |-> DuplicatedKeepFirst(d, PhoneKey)[i],
         exact_dup |-> DuplicatedKeepFirst(d, ExactKey)[i]]]

DuplicateFlags(d) ==
    [i \in 1..Len(d) |->
        [id_dup |-> Duplicated(d, IdKey)[i],
         phone_dup |-> Duplicated(d, PhoneKey)[i],
         exact_dup |-> Duplicated(d, ExactKey)[i]]]

Unique == "Unique"
ExactDuplicate == "Exact Duplicate (Same ID + Phone)"
SameIdDifferentPhone == "Same ID, Different Phone"
SamePhoneDifferentId == "Same Phone, Different ID"
Complex == "Complex (ID & Phone both duplicated separately)"
Other == "Other"

\* the classifier with its last elif lost
categorize_record_no_complex(row) ==
    LET id_dup == row.id_dup
        phone_dup == row.phone_dup
        exact_dup == row.exact_dup
    IN  IF ~id_dup /\ ~phone_dup THEN Unique
        ELSE IF exact_dup /\ ~(id_dup /\ ~exact_dup)
                          /\ ~(phone_dup /\ ~exact_dup) THEN ExactDuplicate
        ELSE IF id_dup /\ ~phone_dup THEN SameIdDifferentPhone
        ELSE IF phone_dup /\ ~id_dup THEN SamePhoneDifferentId
        ELSE Other

\* the classifier with 'or' for 'and' in its first test
categorize_record_or_unique(row) ==
    LET id_dup == row.id_dup
        phone_dup == row.phone_dup
        exact_dup == row.exact_dup
    IN  IF ~id_dup \/ ~phone_dup THEN Unique
        ELSE IF exact_dup /\ ~(id_dup /\ ~exact_dup)
                          /\ ~(phone_dup /\ ~exact_dup) THEN ExactDuplicate
        ELSE IF id_dup /\ ~phone_dup THEN SameIdDifferentPhone
        ELSE IF phone_dup /\ ~id_dup THEN SamePhoneDifferentId
        ELSE IF id_dup /\ phone_dup THEN
            IF exact_dup THEN ExactDuplicate ELSE Complex
        ELSE Other

\* the classifier testing the one-sided patterns before the exact one
categorize_record_exact_last(row) ==
    LET id_dup == row.id_dup
        phone_dup == row.phone_dup
        exact_dup == row.exact_dup
    IN  IF ~id_dup /\ ~phone_dup THEN Unique
        ELSE IF id_dup /\ ~phone_dup THEN SameIdDifferentPhone
        ELSE IF phone_dup /\ ~id_dup THEN SamePhoneDifferentId
        ELSE IF id_dup /\ phone_dup THEN Complex
        ELSE IF exact_dup THEN ExactDuplicate
        ELSE Other

\* the classifier with the labels of the one-sided patterns exchanged
categorize_record_swapped(row) ==
    LET id_dup == row.id_dup
        phone_dup == row.phone_dup
        exact_dup == row.exact_dup
    IN  IF ~id_dup /\ ~phone_dup THEN Unique
        ELSE IF exact_dup /\ ~(id_dup /\ ~exact_dup)
                          /\ ~(phone_dup /\ ~exact_dup) THEN ExactDuplicate
        ELSE IF id_dup /\ ~phone_dup THEN SamePhoneDifferentId
        ELSE IF phone_dup /\ ~id_dup THEN SameIdDifferentPhone
        ELSE IF id_dup /\ phone_dup THEN
            IF exact_dup THEN ExactDuplicate ELSE Complex
        ELSE Other

categorize_record(row) ==
    LET id_dup == row.id_dup
        phone_dup == row.phone_dup
        exact_dup == row.exact_dup
    IN  IF ~id_dup /\ ~phone_dup THEN Unique
        ELSE IF exact_dup /\ ~(id_dup /\ ~exact_dup)
                          /\ ~(phone_dup /\ ~exact_dup) THEN ExactDuplicate
        ELSE IF id_dup /\ ~phone_dup THEN SameIdDifferentPhone
        ELSE IF phone_dup /\ ~id_dup THEN SamePhoneDifferentId
        ELSE IF id_dup /\ phone_dup THEN
            IF exact_dup THEN ExactDuplicate ELSE Complex
        ELSE Other

\* df[df['_duplicate_category'] == label]
CategorySubset(label) ==
    {df[i].idx : i \in {k \in 1..Len(df) : duplicate_category[k] = label}}

unique_df == CategorySubset(Unique)
exact_dup_df == CategorySubset(ExactDuplicate)
same_id_df == CategorySubset(SameIdDifferentPhone)
same_phone_df == CategorySubset(SamePhoneDifferentId)
complex_df == CategorySubset(Complex)

\* Series.value_counts(): label -> number of rows, missing cells dropped
value_counts(col) ==
    [l \in {col[i] : i \in 1..Len(col)} \ {NaN} |->
        Cardinality({i \in 1..Len(col) : col[i] = l})]

RECURSIVE SumOver(_, _)
SumOver(f, S) ==
    IF S = {} THEN 0
    ELSE LET x == CHOOSE y \in S : TRUE
         IN  f[x] + SumOver(f, S \ {x})

\* table['Count'].sum()
CountSum(table) == SumOver(table, DOMAIN table)

reconciliation == value_counts(duplicate_category)
total_categorized == CountSum(reconciliation)
Balanced == total_raw = total_categorized

----------------------------------------------------------------------------
(* Section 4: cleaning steps *)

\* drop_duplicates(subset, keep='last')
DropDuplicatesKeepLast(d, subset) ==
    LET keep(i) == ~\E j \in (i + 1)..Len(d) : Key(d[j], subset) = Key(d[i], subset)
        F[n \in 0..Len(d)] ==
            IF n = 0 THEN <<>>
            ELSE IF keep(n) THEN Append(F[n - 1], d[n]) ELSE F[n - 1]
    IN  F[Len(d)]

\* a dedup that only compares neighbouring rows
DropDuplicatesAdjacent(d, subset) ==
    LET keep(i) == i = 1 \/ Key(d[i - 1], subset) # Key(d[i], subset)
        F[n \in 0..Len(d)] ==
            IF n = 0 THEN <<>>
            ELSE IF keep(n) THEN Append(F[n - 1], d[n]) ELSE F[n - 1]
    IN  F[Len(d)]

\* drop_duplicates(subset, keep='first'): rows in their order, a row dropped
\* when an earlier row has the same key
DropDuplicates(d, subset) ==
    LET keep(i) == ~\E j \in 1..(i - 1) : Key(d[j], subset) = Key(d[i], subset)
        F[n \in 0..Len(d)] ==
            IF n = 0 THEN <<>>
            ELSE IF keep(n) THEN Append(F[n - 1], d[n]) ELSE F[n - 1]
    IN  F[Len(d)]

\* every step computed from the filtered set instead of the previous step
CleaningStepsFromDf(d) ==
    [step1 |-> DropDuplicates(d, ExactKey),
     step2 |-> DropDuplicates(d, IdKey),
     step3 |-> DropDuplicates(d, PhoneKey)]

\* the steps with keep='last'
CleaningStepsKeepLast(d) ==
    LET s1 == DropDuplicatesKeepLast(d, ExactKey)
        s2 == DropDuplicatesKeepLast(s1, IdKey)
        s3 == DropDuplicatesKeepLast(s2, PhoneKey)
    IN  [step1 |-> s1, step2 |-> s2, step3 |-> s3]

\* the steps with a dedup that only compares neighbouring rows
CleaningStepsAdjacent(d) ==
    LET s1 == DropDuplicatesAdjacent(d, ExactKey)
        s2 == DropDuplicatesAdjacent(s1, IdKey)
        s3 == DropDuplicatesAdjacent(s2, PhoneKey)
    IN  [step1 |-> s1, step2 |-> s2, step3 |-> s3]

CleaningSteps(d) ==
    LET s1 == DropDuplicates(d, ExactKey)
        s2 == DropDuplicates(s1, IdKey)
        s3 == DropDuplicates(s2, PhoneKey)
    IN  [step1 |-> s1, step2 |-> s2, step3 |-> s3]

step1_removed == total_raw - Len(step1_df)
step2_removed == Len(step1_df) - Len(step2_df)
step3_removed == Len(step2_df) - Len(step3_df)

\* the branch on cleaning_choice
SelectClean(choice, s1, s2, s3) ==
    IF choice = 1 THEN s1 ELSE IF choice = 2 THEN s2 ELSE s3

----------------------------------------------------------------------------
(* Section 5: demographic preprocess and aggregates on the cleaned data *)

\* classify_age with the upper Youth bound written as a strict test
classify_age_strict(x) ==
    IF x = NaN THEN "Unknown/Missing"
    ELSE IF x[1] < 18 THEN "Under 18"
    ELSE IF 18 <= x[1] /\ x[1] < 35 THEN "Youth (18-35)"
    ELSE IF x[1] > 35 THEN "Adult (36+)"
    ELSE "Unknown/Missing"

classify_age(x) ==
    IF x = NaN THEN "Unknown/Missing"
    ELSE IF x[1] < 18 THEN "Under 18"
    ELSE IF 18 <= x[1] /\ x[1] <= 35 THEN "Youth (18-35)"
    ELSE IF x[1] > 35 THEN "Adult (36+)"
    ELSE "Unknown/Missing"

UPPER == <<"A", "B", "C", "D", "E", "F", "G", "H", "I", "J", "K", "L", "M",
           "N", "O", "P", "Q", "R", "S", "T", "U", "V", "W", "X", "Y", "Z">>
LOWER == <<"a", "b", "c", "d", "e", "f", "g", "h", "i", "j", "k", "l", "m",
           "n", "o", "p", "q", "r", "s", "t", "u", "v", "w", "x", "y", "z">>

\* Series.astype(str): a missing cell becomes the text 'nan'
astype_str(cell) == IF cell = NaN THEN <<"n", "a", "n">> ELSE cell

\* str.lower()
lower(s) ==
    [i \in 1..Len(s) |->
        IF \E k \in 1..Len(UPPER) : UPPER[k] = s[i]
        THEN LOWER[CHOOSE k \in 1..Len(UPPER) : UPPER[k] = s[i]]
        ELSE s[i]]

\* str.strip()
strip(s) ==
    LET ink == {i \in 1..Len(s) : s[i] # " "}
    IN  IF ink = {} THEN <<>>
        ELSE SubSeq(s, CHOOSE i \in ink : \A j \in ink : i <= j,
                       CHOOSE i \in ink : \A j \in ink : i >= j)

\* sub in s
contains(s, sub) ==
    \E k \in 0..(Len(s) - Len(sub)) : SubSeq(s, k + 1, k + Len(sub)) = sub

\* the lambda of the PWD normalisation
pwd_label(x) ==
    IF contains(x, <<"y", "e", "s">>) THEN "Yes"
    ELSE IF contains(x, <<"n", "o">>) THEN "No"
    ELSE "Unspecified"

PWDStatus(cell) == pwd_label(lower(strip(astype_str(cell))))

\* df_clean[age_col].apply(classify_age)
AgeGroupColumn(d) == [i \in 1..Len(d) |-> classify_age(d[i][age_col])]

\* the normalised 'PWD Status' column
PWDStatusColumn(d) == [i \in 1..Len(d) |-> PWDStatus(d[i][pwd_col])]

\* df_clean[gender_col].astype(str).str.lower().str.strip()
GenderNormColumn(d) ==
    [i \in 1..Len(d) |-> strip(lower(astype_str(d[i][gender_col])))]

\* gender_norm.str.contains('female')
is_female(g) == contains(g, <<"f", "e", "m", "a", "l", "e">>)

\* is_male without the exclusion of the female rows
is_male_contains(g) == contains(g, <<"m", "a", "l", "e">>)

\* ~is_female & gender_norm.str.contains('male')
is_male(g) == ~is_female(g) /\ contains(g, <<"m", "a", "l", "e">>)

\* the Count column of ta_summary, from the gender_norm, 'Age Group' and
\* 'PWD Status' columns of df_clean
TASummary(g, a, p) ==
    LET rows == 1..Len(g)
        female(i) == is_female(g[i])
        male(i) == is_male(g[i])
        is_youth(i) == a[i] = "Youth (18-35)"
        is_adult(i) == a[i] = "Adult (36+)"
        is_pwd(i) == p[i] = "Yes"
    IN  [Total |-> Len(g),
         Female |-> Cardinality({i \in rows : female(i)}),
         Male |-> Cardinality({i \in rows : male(i)}),
         Youth |-> Cardinality({i \in rows : is_youth(i)}),
         Adult |-> Cardinality({i \in rows : is_adult(i)}),
         YouthFemale |-> Cardinality({i \in rows : is_youth(i) /\ female(i)}),
         YouthMale |-> Cardinality({i \in rows : is_youth(i) /\ male(i)}),
         AdultFemale |-> Cardinality({i \in rows : is_adult(i) /\ female(i)}),
         AdultMale |-> Cardinality({i \in rows : is_adult(i) /\ male(i)}),
         PWDTotal |-> Cardinality({i \in rows : is_pwd(i)}),
         PWDFemale |-> Cardinality({i \in rows : is_pwd(i) /\ female(i)}),
         PWDMale |-> Cardinality({i \in rows : is_pwd(i) /\ male(i)}),
         PWDYouth |-> Cardinality({i \in rows : is_pwd(i) /\ is_youth(i)}),
         PWDAdult |-> Cardinality({i \in rows : is_pwd(i) /\ is_adult(i)})]

----------------------------------------------------------------------------
(* The script run *)

NotRun == <<>>

Init ==
    /\ pc = "load"
    /\ df_raw = NotRun
    /\ start_date = NotRun
    /\ end_date = NotRun
    /\ selected_counties = {}
    /\ df = NotRun
    /\ total_raw = 0
    /\ flags = NotRun
    /\ duplicate_category = NotRun
    /\ step1_df = NotRun
    /\ step2_df = NotRun
    /\ step3_df = NotRun
    /\ cleaning_choice = NotRun
    /\ df_clean = NotRun
    /\ age_group = NotRun
    /\ pwd_status = NotRun
    /\ age_breakdown = NotRun
    /\ pwd_breakdown = NotRun
    /\ county_summary = NotRun
    /\ gender_norm = NotRun
    /\ ta_summary = NotRun

filterVars == <<start_date, end_date, selected_counties, df, total_raw>>
classVars == <<flags, duplicate_category>>
cleanVars == <<step1_df, step2_df, step3_df, cleaning_choice, df_clean>>
demogVars == <<age_group, pwd_status, age_breakdown, pwd_breakdown,
               county_summary, gender_norm, ta_summary>>

\* load_data() on a sheet of the given rows
LoadData(sheets) ==
    /\ pc = "load"
    /\ \E cells \in sheets : df_raw' = WithIndex(cells)
    /\ pc' = "filter"
    /\ UNCHANGED <<filterVars, classVars, cleanVars, demogVars>>

LoadKeys == LoadData(KeySheets(MaxLen))
LoadAgg == LoadData(AggSheets(MaxAggLen))
LoadAges == LoadData(AgeSheets(MaxAgeLen))
LoadMissingKeys == LoadData(MissingKeySheets(MaxMissingLen))
LoadTA == LoadData(TASheets(MaxTALen))

\* load_data() on a sheet that carries Timestamp, only Training date, or
\* neither
LoadDates ==
    /\ pc = "load"
    /\ \E cells \in DateSheets(MaxDateLen),
          columns \in {{timestamp_col, training_date_col},
                       {training_date_col}, {}} :
            df_raw' = load_data(cells, columns)
    /\ pc' = "filter"
    /\ UNCHANGED <<filterVars, classVars, cleanVars, demogVars>>

\* sidebar date and county filters, total_raw
Filter ==
    /\ pc = "filter"
    /\ \E s \in DATES, e \in DATES :
        LET dated == DateFilter(df_raw, s, e)
        IN  \E sel \in SUBSET all_counties(dated) :
                /\ start_date' = s
                /\ end_date' = e
                /\ selected_counties' = sel
                /\ df' = CountyFilter(dated, sel)
                /\ total_raw' = Len(CountyFilter(dated, sel))
    /\ pc' = "classify"
    /\ UNCHANGED <<df_raw, classVars, cleanVars, demogVars>>

\* duplicate flags and df.apply(categorize_record, axis=1)
Classify ==
    /\ pc = "classify"
    /\ flags' = DuplicateFlags(df)
    /\ duplicate_category' =
            [i \in 1..Len(df) |-> categorize_record(flags'[i])]
    /\ pc' = "clean"
    /\ UNCHANGED <<df_raw, filterVars, cleanVars, demogVars>>

\* the three cleaning steps and the cleaning-level selector
Clean ==
    /\ pc = "clean"
    /\ LET steps == CleaningSteps(df)
       IN  /\ step1_df' = steps.step1
           /\ step2_df' = steps.step2
           /\ step3_df' = steps.step3
           /\ \E choice \in {1, 2, 3} :
                /\ cleaning_choice' = choice
                /\ df_clean' = SelectClean(choice, steps.step1, steps.step2,
                                           steps.step3)
    /\ pc' = "demog"
    /\ UNCHANGED <<df_raw, filterVars, classVars, demogVars>>

\* age groups, PWD status and the breakdown tables
Demographics ==
    /\ pc = "demog"
    /\ age_group' = AgeGroupColumn(df_clean)
    /\ pwd_status' = PWDStatusColumn(df_clean)
    /\ gender_norm' = GenderNormColumn(df_clean)
    /\ age_breakdown' = value_counts(age_group')
    /\ pwd_breakdown' = value_counts(pwd_status')
    /\ county_summary' = value_counts(Column(df_clean, county_col))
    /\ ta_summary' = TASummary(gender_norm', age_group', pwd_status')
    /\ pc' = "done"
    /\ UNCHANGED <<df_raw, filterVars, classVars, cleanVars>>

ResetRun ==
    /\ start_date' = NotRun
    /\ end_date' = NotRun
    /\ selected_counties' = {}
    /\ df' = NotRun
    /\ total_raw' = 0
    /\ flags' = NotRun
    /\ duplicate_category' = NotRun
    /\ step1_df' = NotRun
    /\ step2_df' = NotRun
    /\ step3_df' = NotRun
    /\ cleaning_choice' = NotRun
    /\ df_clean' = NotRun
    /\ age_group' = NotRun
    /\ pwd_status' = NotRun
    /\ age_breakdown' = NotRun
    /\ pwd_breakdown' = NotRun
    /\ county_summary' = NotRun
    /\ gender_norm' = NotRun
    /\ ta_summary' = NotRun

\* a widget interaction reruns the script on the cached sheet
Rerun ==
    /\ pc = "done"
    /\ pc' = "filter"
    /\ UNCHANGED df_raw
    /\ ResetRun

\* the Refresh Data button: cache cleared, sheet fetched again
Refresh ==
    /\ pc = "done"
    /\ pc' = "load"
    /\ df_raw' = NotRun
    /\ ResetRun

Next ==
    \/ LoadKeys
    \/ Filter
    \/ Classify
    \/ Clean
    \/ Demographics
    \/ Rerun
    \/ Refresh

Spec == Init /\ [][Next]_vars

NextAgg ==
    \/ LoadAgg
    \/ Filter
    \/ Classify
    \/ Clean
    \/ Demographics
    \/ Rerun
    \/ Refresh

SpecAgg == Init /\ [][NextAgg]_vars

NextAge ==
    \/ LoadAges
    \/ Filter
    \/ Classify
    \/ Clean
    \/ Demographics
    \/ Rerun
    \/ Refresh

SpecAge == Init /\ [][NextAge]_vars

NextMissing ==
    \/ LoadMissingKeys
    \/ Filter
    \/ Classify
    \/ Clean
    \/ Demographics
    \/ Rerun
    \/ Refresh

SpecMissing == Init /\ [][NextMissing]_vars

NextDates ==
    \/ LoadDates
    \/ Filter
    \/ Classify
    \/ Clean
    \/ Demographics
    \/ Rerun
    \/ Refresh

SpecDates == Init /\ [][NextDates]_vars

NextTA ==
    \/ LoadTA
    \/ Filter
    \/ Classify
    \/ Clean
    \/ Demographics
    \/ Rerun
    \/ Refresh

SpecTA == Init /\ [][NextTA]_vars

----------------------------------------------------------------------------
(* Properties *)

Classified == pc \in {"clean", "demog", "done"}
Cleaned == pc \in {"demog", "done"}
Aggregated == pc = "done"

FiveCategories ==
    {Unique, ExactDuplicate, SameIdDifferentPhone, SamePhoneDifferentId,
     Complex}

\* C1: every record of the filtered set gets one of the five categories and
\* never 'Other', so the sizes of the five category subsets sum to total_raw
\* and the reconciliation check reports BALANCED.
C1_FiveCategoriesBalanced ==
    Classified =>
        /\ Len(duplicate_category) = Len(df)
        /\ \A i \in 1..Len(df) : duplicate_category[i] \in FiveCategories
        /\ Cardinality(unique_df) + Cardinality(exact_dup_df)
             + Cardinality(same_id_df) + Cardinality(same_phone_df)
             + Cardinality(complex_df) = total_raw
        /\ Balanced

C1_Witness ==
    /\ Classified
    /\ total_raw = MaxLen
    /\ exact_dup_df # {}
    /\ same_phone_df # {}
    /\ complex_df # {}

\* the flags as the specification words them: the value appears more than
\* once in the set
AppearsMoreThanOnce(d, i, subset) ==
    Cardinality({j \in 1..Len(d) : Key(d[j], subset) = Key(d[i], subset)}) > 1

\* the reference rule of the specification
ReferenceCategory(d, i) ==
    LET id_dup == AppearsMoreThanOnce(d, i, IdKey)
        phone_dup == AppearsMoreThanOnce(d, i, PhoneKey)
        exact_dup == AppearsMoreThanOnce(d, i, ExactKey)
    IN  IF ~id_dup /\ ~phone_dup THEN Unique
        ELSE IF exact_dup THEN ExactDuplicate
        ELSE IF id_dup /\ ~phone_dup THEN SameIdDifferentPhone
        ELSE IF phone_dup /\ ~id_dup THEN SamePhoneDifferentId
        ELSE Complex

\* C2: the category computed by categorize_record from the
\* duplicated(keep=False) flags equals the category of the reference rule
\* (Unique, else ExactDuplicate, else the one-sided patterns, else Complex).
C2_MatchesReferenceRule ==
    Classified =>
        \A i \in 1..Len(df) : duplicate_category[i] = ReferenceCategory(df, i)

C2_Witness ==
    /\ Classified
    /\ \E i, j \in 1..Len(df) :
        /\ flags[i].exact_dup /\ flags[i].id_dup /\ flags[i].phone_dup
        /\ duplicate_category[i] = ExactDuplicate
        /\ ~flags[j].exact_dup /\ flags[j].id_dup /\ flags[j].phone_dup
        /\ duplicate_category[j] = Complex

\* C3: cleaning never increases the record count from one level to the
\* next: total_raw >= len(step1_df) >= len(step2_df) >= len(step3_df), and
\* the three removed counts are non-negative.
C3_CleaningNeverGrows ==
    Cleaned =>
        /\ total_raw >= Len(step1_df)
        /\ Len(step1_df) >= Len(step2_df)
        /\ Len(step2_df) >= Len(step3_df)
        /\ step1_removed >= 0
        /\ step2_removed >= 0
        /\ step3_removed >= 0

C3_Witness ==
    /\ Cleaned
    /\ total_raw > Len(step1_df)
    /\ Len(step1_df) > Len(step2_df)
    /\ Len(step2_df) > Len(step3_df)

\* the rows of out are rows of inp, in the order of inp
IsOrderedSubsequence(inp, out) ==
    /\ \A i \in 1..Len(out) : \E j \in 1..Len(inp) : inp[j] = out[i]
    /\ \A i, j \in 1..Len(out) : i < j => out[i].idx < out[j].idx

\* out holds exactly the rows of inp that no earlier row of inp matches
IsFirstOccurrenceDedup(inp, out, subset) ==
    /\ IsOrderedSubsequence(inp, out)
    /\ \A i \in 1..Len(inp) :
        (\E k \in 1..Len(out) : out[k] = inp[i])
            <=> ~\E j \in 1..(i - 1) : Key(inp[j], subset) = Key(inp[i], subset)

\* C4: cleaning is first-occurrence-wins and order preserving: each level's
\* output is a subsequence of its input in the original order, a row is
\* dropped exactly when an earlier row of that level's input has the same
\* key, and the date and county filters do not reorder rows.
C4_FirstOccurrenceWins ==
    /\ pc \in {"classify", "clean", "demog", "done"} =>
        /\ IsOrderedSubsequence(df_raw, df)
        /\ \A i \in 1..Len(df_raw) : df_raw[i].idx = i - 1
    /\ Cleaned =>
        /\ IsFirstOccurrenceDedup(df, step1_df, ExactKey)
        /\ IsFirstOccurrenceDedup(step1_df, step2_df, IdKey)
        /\ IsFirstOccurrenceDedup(step2_df, step3_df, PhoneKey)

C4_Witness ==
    /\ Cleaned
    /\ 0 < Len(df)
    /\ Len(df) < Len(df_raw)
    /\ df[1].idx > 0
    /\ Len(step1_df) < Len(df)
    /\ Len(step3_df) < Len(step2_df)

NoTwoSame(d, subset) ==
    \A i, j \in 1..Len(d) : i # j => Key(d[i], subset) # Key(d[j], subset)

\* C5: the level-1 output has no two records with the same (id, phone)
\* pair, the level-2 output no two with the same id, the level-3 output no
\* two with the same id and no two with the same phone; df_clean is the
\* output of the level the selector picked.
C5_LevelsDeduplicated ==
    Cleaned =>
        /\ NoTwoSame(step1_df, ExactKey)
        /\ NoTwoSame(step2_df, IdKey)
        /\ NoTwoSame(step3_df, IdKey)
        /\ NoTwoSame(step3_df, PhoneKey)
        /\ cleaning_choice = 1 => df_clean = step1_df
        /\ cleaning_choice = 2 => df_clean = step2_df
        /\ cleaning_choice = 3 => df_clean = step3_df
        /\ cleaning_choice >= 1 => NoTwoSame(df_clean, ExactKey)
        /\ cleaning_choice >= 2 => NoTwoSame(df_clean, IdKey)
        /\ cleaning_choice >= 3 => NoTwoSame(df_clean, PhoneKey)

C5_Witness ==
    /\ Cleaned
    /\ cleaning_choice = 2
    /\ Len(df_clean) < Len(step1_df)
    /\ Len(step1_df) < Len(df)
    /\ \E i, j \in 1..Len(df) : j > i + 1 /\ Key(df[i], ExactKey) = Key(df[j], ExactKey)

\* the records of d whose (id, phone) pair is shared by n >= 2 records
ExactGroupMembers(d) ==
    {d[i].idx : i \in {k \in 1..Len(d) :
        Cardinality({j \in 1..Len(d) : Key(d[j], ExactKey) = Key(d[k], ExactKey)}) >= 2}}

\* C6: every group of n >= 2 records sharing an (id, phone) pair puts all n
\* of its records in Exact Duplicate, so the Exact Duplicate count is the
\* sum of the group sizes and is never exactly 1.
C6_ExactCountsWholeGroups ==
    Classified =>
        /\ exact_dup_df = ExactGroupMembers(df)
        /\ Cardinality(exact_dup_df) # 1

C6_Witness ==
    /\ Classified
    /\ Cardinality(exact_dup_df) = 3
    /\ total_raw = MaxLen

KeysOf(d) == [i \in 1..Len(d) |-> <<d[i].id[1], d[i].phone[1]>>]

\* C7: the input [(1,A),(1,A),(1,B),(2,B)] is labelled Exact Duplicate,
\* Exact Duplicate, Complex, Same Phone Different ID.
C7_MixedExample ==
    (Classified /\ KeysOf(df) = <<<<1, "A">>, <<1, "A">>, <<1, "B">>, <<2, "B">>>>)
        => duplicate_category =
             <<ExactDuplicate, ExactDuplicate, Complex, SamePhoneDifferentId>>

C7_Witness ==
    /\ Classified
    /\ KeysOf(df) = <<<<1, "A">>, <<1, "A">>, <<1, "B">>, <<2, "B">>>>
    /\ duplicate_category[3] = Complex

\* no record of d other than rows i and j has the id or the phone of row i
\* or of row j
NoOtherShares(d, i, j) ==
    \A k \in 1..Len(d) \ {i, j} :
        /\ d[k].id \notin {d[i].id, d[j].id}
        /\ d[k].phone \notin {d[i].phone, d[j].phone}

\* C8: two records with the same id and the same phone, whose id and phone
\* no other record shares, are both Exact Duplicate.
C8_PureExactPair ==
    Classified =>
        \A i, j \in 1..Len(df) :
            (i # j /\ df[i].id = df[j].id /\ df[i].phone = df[j].phone
                   /\ NoOtherShares(df, i, j))
                => /\ duplicate_category[i] = ExactDuplicate
                   /\ duplicate_category[j] = ExactDuplicate

C8_Witness ==
    /\ Classified
    /\ total_raw > 2
    /\ \E i, j \in 1..Len(df) :
        /\ i # j /\ df[i].id = df[j].id /\ df[i].phone = df[j].phone
        /\ NoOtherShares(df, i, j)
        /\ duplicate_category[i] = ExactDuplicate

\* C9: two records with the same id and different phones, whose id and
\* phones no other record shares, are both Same ID, Different Phone.
C9_PureSameIdPair ==
    Classified =>
        \A i, j \in 1..Len(df) :
            (i # j /\ df[i].id = df[j].id /\ df[i].phone # df[j].phone
                   /\ NoOtherShares(df, i, j))
                => /\ duplicate_category[i] = SameIdDifferentPhone
                   /\ duplicate_category[j] = SameIdDifferentPhone

C9_Witness ==
    /\ Classified
    /\ \E i, j \in 1..Len(df) :
        /\ i # j /\ df[i].id = df[j].id /\ df[i].phone # df[j].phone
        /\ NoOtherShares(df, i, j)
        /\ duplicate_category[i] = SameIdDifferentPhone

\* C10: for the cleaned set at any level, the counts of county_summary, of
\* age_breakdown and of pwd_breakdown each sum to len(df_clean), also when a
\* county, age or disability response is missing.
C10_PartitionsSumToTotal ==
    Aggregated =>
        /\ CountSum(county_summary) = Len(df_clean)
        /\ CountSum(age_breakdown) = Len(df_clean)
        /\ CountSum(pwd_breakdown) = Len(df_clean)

\* the age group the stated boundaries give
AgeGroupByBoundaries(x) ==
    IF x = NaN THEN "Unknown/Missing"
    ELSE IF x[1] <= 17 THEN "Under 18"
    ELSE IF x[1] <= 35 THEN "Youth (18-35)"
    ELSE "Adult (36+)"

\* C11: classify_age gives a null age Unknown/Missing, an age below 18
\* Under 18, an age of 18 to 35 Youth (18-35) (35 is Youth), an age of 36 or
\* more Adult (36+) (36 is Adult); a non-null age never gets Unknown/Missing.
C11_AgeGroupBoundaries ==
    Aggregated =>
        /\ Len(age_group) = Len(df_clean)
        /\ \A i \in 1..Len(df_clean) :
            /\ age_group[i] = AgeGroupByBoundaries(df_clean[i].age)
            /\ df_clean[i].age # NaN => age_group[i] # "Unknown/Missing"
            /\ df_clean[i].age = <<35>> => age_group[i] = "Youth (18-35)"
            /\ df_clean[i].age = <<36>> => age_group[i] = "Adult (36+)"

C11_Witness ==
    /\ Aggregated
    /\ \E i, j \in 1..Len(df_clean) :
        /\ df_clean[i].age = <<35>> /\ age_group[i] = "Youth (18-35)"
        /\ df_clean[j].age = <<36>> /\ age_group[j] = "Adult (36+)"

\* the positions of the rows of d whose cell in column col is missing
Lacking(d, col) == {i \in 1..Len(d) : d[i][col] = NaN}

\* the rows of out lacking col are exactly the first row of inp lacking col
KeepsOnlyFirstLacking(inp, out, col) ==
    /\ Cardinality(Lacking(out, col)) <= 1
    /\ Lacking(inp, col) # {} =>
        \E k \in Lacking(out, col) :
            out[k] = inp[CHOOSE i \in Lacking(inp, col) :
                            \A j \in Lacking(inp, col) : i <= j]
    /\ Lacking(inp, col) = {} => Lacking(out, col) = {}

Labels(d) == {d[i].idx : i \in 1..Len(d)}

\* C13: every record classified Unique survives all three cleaning levels:
\* unique_df is a subset of step3_df, hence of step1_df and step2_df, and
\* len(step3_df) >= len(unique_df).
C13_UniqueSurvivesCleaning ==
    Cleaned =>
        /\ unique_df \subseteq Labels(step3_df)
        /\ unique_df \subseteq Labels(step2_df)
        /\ unique_df \subseteq Labels(step1_df)
        /\ Len(step3_df) >= Cardinality(unique_df)

C13_Witness ==
    /\ Cleaned
    /\ unique_df # {}
    /\ Len(step3_df) > Cardinality(unique_df)
    /\ Len(step3_df) < Len(df)

Filtered == pc \in {"classify", "clean", "demog", "done"}

\* C14: a record whose timestamp is null is never in the filtered set:
\* every record counted in total_raw, classified, cleaned or aggregated has
\* a non-null timestamp with start_date <= date <= end_date and, when
\* counties are selected, a county of the selection.
C14_FilteredRecordsInRange ==
    /\ Filtered =>
        /\ total_raw = Len(df)
        /\ Labels(df) \subseteq Labels(df_raw)
        /\ \A i \in 1..Len(df) :
            /\ df[i].Timestamp # NaN
            /\ start_date <= df[i].Timestamp[1]
            /\ df[i].Timestamp[1] <= end_date
            /\ selected_counties # {} => df[i].county \in selected_counties
    /\ Classified => Len(duplicate_category) = Len(df)
    /\ Cleaned =>
        /\ \A i \in 1..Len(step1_df) : \E j \in 1..Len(df) : step1_df[i] = df[j]
        /\ \A i \in 1..Len(step2_df) : \E j \in 1..Len(df) : step2_df[i] = df[j]
        /\ \A i \in 1..Len(step3_df) : \E j \in 1..Len(df) : step3_df[i] = df[j]
        /\ \A i \in 1..Len(df_clean) : \E j \in 1..Len(df) : df_clean[i] = df[j]
    /\ Aggregated => Len(age_group) = Len(df_clean)

C14_Witness ==
    /\ Aggregated
    /\ \E i \in 1..Len(df_raw) : df_raw[i].Timestamp = NaN
    /\ Len(df) > 0
    /\ Len(df_clean) > 0
    /\ selected_counties # {}

\* C15: in the TA indicator table no cleaned record counts as both Female
\* and Male (a gender containing 'female' is Female only) and none as both
\* Youth and Adult, so Female + Male <= Total, Youth + Adult <= Total,
\* Youth Female + Youth Male <= Youth, Adult Female + Adult Male <= Adult,
\* PWD-Female + PWD-Male <= PWD-Total and PWD-Youth + PWD-Adult <= PWD-Total.
C15_IndicatorsDisjoint ==
    Aggregated =>
        /\ Len(gender_norm) = Len(df_clean)
        /\ \A i \in 1..Len(df_clean) :
            /\ ~(is_female(gender_norm[i]) /\ is_male(gender_norm[i]))
            /\ contains(gender_norm[i], <<"f", "e", "m", "a", "l", "e">>)
                => is_female(gender_norm[i]) /\ ~is_male(gender_norm[i])
            /\ ~(age_group[i] = "Youth (18-35)" /\ age_group[i] = "Adult (36+)")
        /\ ta_summary.Total = Len(df_clean)
        /\ ta_summary.Female + ta_summary.Male <= ta_summary.Total
        /\ ta_summary.Youth + ta_summary.Adult <= ta_summary.Total
        /\ ta_summary.YouthFemale + ta_summary.YouthMale <= ta_summary.Youth
        /\ ta_summary.AdultFemale + ta_summary.AdultMale <= ta_summary.Adult
        /\ ta_summary.PWDFemale + ta_summary.PWDMale <= ta_summary.PWDTotal
        /\ ta_summary.PWDYouth + ta_summary.PWDAdult <= ta_summary.PWDTotal

C15_Witness ==
    /\ Aggregated
    /\ ta_summary.Total = MaxTALen
    /\ ta_summary.Female = 1
    /\ ta_summary.Male = 1
    /\ ta_summary.PWDFemale = 1
    /\ ta_summary.YouthFemale = 1
    /\ ta_summary.AdultMale = 1

====
